---- MODULE Spec2Model ----
(***************************************************************************)
(* The WalletGenerator component (src/components/WalletGenerator.tsx) as a *)
(* state machine: the React state of the component, the browser's          *)
(* localStorage entries it reads and writes, and one action per handler.   *)
(*                                                                         *)
(* A JavaScript string is a TLA+ string.  The recovery phrase that         *)
(* handleGenerateWallet trims, validates and splits is the sequence of its *)
(* tokens, a token being a word or the single blank " "; asText gives the  *)
(* string it spells.  A cryptographic library call is the text of the call *)
(* applied to its arguments: an injective constructor.                     *)
(***************************************************************************)
EXTENDS Integers, Sequences, FiniteSets, TLC

VARIABLES
    mnemonicWords,       \* useState<string[]>(Array(12).fill(" "))
    pathTypes,           \* useState<string[]>([])
    wallets,             \* useState<Wallet[]>([])
    mnemonicInput,       \* useState<string>("")
    visiblePrivateKeys,  \* useState<boolean[]>([])
    visiblePhrases,      \* useState<boolean[]>([])
    store,               \* localStorage: entry -> <<>> (absent) or <<value>>
    toast,               \* the toast raised by the last handler, "" if none
    assigned,            \* history: account indices handed out in this lineage
    noRemove             \* history: no remove since the wallet list was last empty

vars == <<mnemonicWords, pathTypes, wallets, mnemonicInput, visiblePrivateKeys,
          visiblePhrases, store, toast, assigned, noRemove>>

\* ---------------------------------------------------------------- bounds
\* Spec grows the wallet list to at most MaxWallets wallets, SpecUI to at most
\* MaxWalletsUI.
MaxWallets == 2

MaxWalletsUI == 3

\* Indices a handler may be called with: every position and one past the end.
Indices == 0..MaxWallets

\* The account indices a derivation path may carry.
AccountIndices == 0..(MaxWallets + MaxWalletsUI)

\* ------------------------------------------------------------- constants
\* Array(12): the number of words of the placeholder and of a phrase.
PhraseLen == 12

Space == " "

\* pathTypes[0] of an empty array, as the template literal prints it.
Undefined == "undefined"

Solana == "501"

Ethereum == "60"

\* ---------------------------------------------------- JavaScript strings
\* s.trim(): blanks removed at both ends.
RECURSIVE trimStart(_)
trimStart(s) ==
    IF s # <<>> /\ Head(s) = Space THEN trimStart(Tail(s)) ELSE s

RECURSIVE trimEnd(_)
trimEnd(s) ==
    IF s # <<>> /\ s[Len(s)] = Space THEN trimEnd(SubSeq(s, 1, Len(s) - 1)) ELSE s

trim(s) == trimEnd(trimStart(s))

\* The string a token sequence spells.
RECURSIVE asText(_)
asText(s) == IF s = <<>> THEN "" ELSE Head(s) \o asText(Tail(s))

\* s.split(" "): the pieces between blanks; "" gives [""].
RECURSIVE splitAcc(_, _, _)
splitAcc(s, cur, acc) ==
    IF s = <<>> THEN Append(acc, cur)
    ELSE IF Head(s) = Space THEN splitAcc(Tail(s), "", Append(acc, cur))
    ELSE splitAcc(Tail(s), cur \o Head(s), acc)

split(s) == splitAcc(s, "", <<>>)

\* words.join(" ")
RECURSIVE join(_)
join(words) ==
    IF words = <<>> THEN ""
    ELSE IF Len(words) = 1 THEN words[1]
    ELSE words[1] \o Space \o join(Tail(words))

\* array.filter((_, i) => i !== index), positions counted from 0.
RECURSIVE filterFrom(_, _, _)
filterFrom(s, i, index) ==
    IF s = <<>> THEN <<>>
    ELSE (IF i # index THEN <<Head(s)>> ELSE <<>>) \o filterFrom(Tail(s), i + 1, index)

\* The filter with positions counted from 1.
filterIndexFromOne(s, index) == filterFrom(s, 1, index)

filterIndex(s, index) == filterFrom(s, 0, index)

\* array.map((v, i) => i === index ? !v : v)
flipIndex(s, index) == [i \in 1..Len(s) |-> IF i - 1 = index THEN ~s[i] ELSE s[i]]

\* The visibility arrays left empty on load.
noFlags(s) == <<>>

\* array.map(() => false)
allFalse(s) == [i \in 1..Len(s) |-> FALSE]

\* JSON.stringify / JSON.parse of the arrays the component stores.
stringify(v) == <<"json", v>>

parse(text) == text[2]

\* ---------------------------------------------------------------- bip39
\* The phrase of PhraseLen words: `rest` repeated, then `last`.
phraseOf(rest, last) ==
    [i \in 1..(2 * PhraseLen - 1) |->
        IF i = 2 * PhraseLen - 1 THEN last ELSE IF i % 2 = 0 THEN Space ELSE rest]

\* Two checksum-valid phrases (BIP-39 test vectors) and a checksum-invalid one.
AbandonAbout == phraseOf("abandon", "about")

ZooWrong == phraseOf("zoo", "wrong")

AbandonAbandon == phraseOf("abandon", "abandon")

ValidMnemonics == {AbandonAbout, ZooWrong}

\* A validation that accepts every phrase.
acceptAnyMnemonic(mnemonic) == TRUE

\* validateMnemonic(mnemonic)
validateMnemonic(mnemonic) == mnemonic \in ValidMnemonics

\* The phrases generateMnemonic() may draw.
GeneratedMnemonics == ValidMnemonics

\* mnemonicToSeedSync(mnemonic).toString("hex"): defined for every string.
mnemonicToSeedSync(mnemonic) == "pbkdf2(" \o mnemonic \o ")"

\* What the user may type into the phrase field.
Inputs == {<<>>, <<Space>> \o ZooWrong \o <<Space>>, AbandonAbandon}

\* ------------------------------------------------------- path derivation
\* The path with accounts numbered from 1.
buildPathFromOne(pathType, accountIndex) ==
    "m/44'/" \o pathType \o "'/0'/" \o ToString(accountIndex + 1) \o "'"

\* The path with the coin type fixed to Solana's.
buildPathOfSolana(pathType, accountIndex) ==
    "m/44'/" \o Solana \o "'/0'/" \o ToString(accountIndex) \o "'"

\* `m/44'/${pathType}'/0'/${accountIndex}'`
buildPath(pathType, accountIndex) ==
    "m/44'/" \o pathType \o "'/0'/" \o ToString(accountIndex) \o "'"

\* A registered coin type the component has no branch for.
OtherCoin == "0"

\* The values of pathType that are decimal numbers.
NumericPathTypes == {Solana, Ethereum, OtherCoin}

\* The values generateWalletFromMnemonic is given, or may be given, as pathType.
PathTypeArgs == NumericPathTypes \cup {Undefined}

\* The paths ed25519-hd-key's isValidPath accepts: m followed by hardened
\* decimal segments.
ValidPaths ==
    {"m/44'/" \o r \o "'/0'/" \o ToString(n) \o "'" :
        r \in NumericPathTypes, n \in AccountIndices}

isValidPath(path) == path \in ValidPaths

\* derivePath(path, seedHex).key, for a valid path.
derivePath(path, seed) == "slip10-ed25519(" \o path \o "," \o seed \o ")"

\* nacl.sign.keyPair.fromSeed(derivedSeed).secretKey
secretKeyFromSeed(derivedSeed) == "ed25519-secret(" \o derivedSeed \o ")"

\* Keypair.fromSecretKey(secretKey).publicKey
publicKeyOf(secretKey) == "ed25519-public(" \o secretKey \o ")"

\* bs58.encode(bytes), publicKey.toBase58()
bs58(bytes) == "bs58(" \o bytes \o ")"

\* Buffer.from(derivedSeed).toString("hex")
hex(bytes) == "hex(" \o bytes \o ")"

\* new ethers.Wallet(privateKey).address
addressOf(privateKey) == "0x-address(secp256k1(" \o privateKey \o "))"

\* A derivation that mixes the number of revealed private keys into the seed.
generateWalletFromHiddenState(pathType, mnemonic, accountIndex) ==
    LET revealed == Cardinality({i \in 1..Len(visiblePrivateKeys) :
                                     visiblePrivateKeys[i]})
        seedBuffer == mnemonicToSeedSync(mnemonic) \o "+" \o ToString(revealed)
        path == buildPath(pathType, accountIndex)
        derivedSeed == derivePath(path, seedBuffer)
        secretKey == secretKeyFromSeed(derivedSeed)
    IN  IF ~isValidPath(path) \/ pathType \notin {Solana, Ethereum}
        THEN [wallet |-> <<>>, toast |-> "Failed to generate wallet. Please try again."]
        ELSE [wallet |-> <<[publicKey |-> bs58(publicKeyOf(secretKey)),
                            privateKey |-> bs58(secretKey),
                            mnemonic |-> mnemonic,
                            path |-> path]>>,
              toast |-> ""]

\* generateWalletFromMnemonic(pathType, mnemonic, accountIndex):
\* <<wallet>> on success, <<>> for null; and the toast it raises.
generateWalletFromMnemonic(pathType, mnemonic, accountIndex) ==
    LET seedBuffer == mnemonicToSeedSync(mnemonic)
        path == buildPath(pathType, accountIndex)
        derivedSeed == derivePath(path, seedBuffer)
        secretKey == secretKeyFromSeed(derivedSeed)
        privateKey == hex(derivedSeed)
    IN  IF ~isValidPath(path)
        THEN [wallet |-> <<>>, toast |-> "Failed to generate wallet. Please try again."]
        ELSE IF pathType = Solana
        THEN [wallet |-> <<[publicKey |-> bs58(publicKeyOf(secretKey)),
                            privateKey |-> bs58(secretKey),
                            mnemonic |-> mnemonic,
                            path |-> path]>>,
              toast |-> ""]
        ELSE IF pathType = Ethereum
        THEN [wallet |-> <<[publicKey |-> addressOf(privateKey),
                            privateKey |-> privateKey,
                            mnemonic |-> mnemonic,
                            path |-> path]>>,
              toast |-> ""]
        ELSE [wallet |-> <<>>, toast |-> "Unsupported path type."]

\* pathTypes[0] with a fallback to Solana.
firstPathTypeOrSolana == IF pathTypes = <<>> THEN Solana ELSE pathTypes[1]

\* pathTypes[0]
firstPathType == IF pathTypes = <<>> THEN Undefined ELSE pathTypes[1]

\* A JavaScript array is truthy, also when empty: !mnemonicWords is false.
isFalsyArray(a) == FALSE

\* --------------------------------------------------------------- storage
Absent == <<>>

EmptyStore == [wallets |-> Absent, mnemonics |-> Absent, paths |-> Absent,
               pathTypes |-> Absent]

\* The component's state after construction, before the mount effect.
Placeholder == [i \in 1..PhraseLen |-> Space]

\* ------------------------------------------------------------------ Init
Init ==
    /\ mnemonicWords = Placeholder
    /\ pathTypes = <<>>
    /\ wallets = <<>>
    /\ mnemonicInput = <<>>
    /\ visiblePrivateKeys = <<>>
    /\ visiblePhrases = <<>>
    /\ store = EmptyStore
    /\ toast = ""
    /\ assigned = {}
    /\ noRemove = TRUE

\* ------------------------------------------------------------ operations
\* A mount effect that restores everything but the phrase.
MountWithoutPhrase ==
    LET loaded == /\ store.wallets # Absent
                  /\ store.mnemonics # Absent
                  /\ store.paths # Absent
    IN  /\ mnemonicWords' = Placeholder
        /\ wallets' = IF loaded THEN parse(store.wallets[1]) ELSE <<>>
        /\ pathTypes' = IF loaded THEN parse(store.paths[1]) ELSE <<>>
        /\ visiblePrivateKeys' = IF loaded THEN allFalse(parse(store.wallets[1])) ELSE <<>>
        /\ visiblePhrases' = IF loaded THEN allFalse(parse(store.wallets[1])) ELSE <<>>
        /\ mnemonicInput' = <<>>
        /\ toast' = ""
        /\ UNCHANGED store

\* The mount effect of a freshly constructed component (a page reload).
Mount ==
    LET loaded == /\ store.wallets # Absent
                  /\ store.mnemonics # Absent
                  /\ store.paths # Absent
    IN  /\ mnemonicWords' = IF loaded THEN parse(store.mnemonics[1]) ELSE Placeholder
        /\ wallets' = IF loaded THEN parse(store.wallets[1]) ELSE <<>>
        /\ pathTypes' = IF loaded THEN parse(store.paths[1]) ELSE <<>>
        /\ visiblePrivateKeys' = IF loaded THEN allFalse(parse(store.wallets[1])) ELSE <<>>
        /\ visiblePhrases' = IF loaded THEN allFalse(parse(store.wallets[1])) ELSE <<>>
        /\ mnemonicInput' = <<>>
        /\ toast' = ""
        /\ UNCHANGED store

\* The chain buttons rendered whenever pathTypes is empty.
SelectChainWhileWallets(kind) ==
    /\ pathTypes = <<>>
    /\ pathTypes' = <<kind>>
    /\ toast' = "Wallet selected. Please generate a wallet to continue."
    /\ UNCHANGED <<mnemonicWords, wallets, mnemonicInput, visiblePrivateKeys,
                   visiblePhrases, store>>

\* Chain buttons that stay rendered after a chain was chosen.
SelectChainAgain(kind) ==
    /\ wallets = <<>>
    /\ pathTypes' = <<kind>>
    /\ toast' = "Wallet selected. Please generate a wallet to continue."
    /\ UNCHANGED <<mnemonicWords, wallets, mnemonicInput, visiblePrivateKeys,
                   visiblePhrases, store>>

\* The Solana and Ethereum buttons, rendered while both lists are empty.
SelectChain(kind) ==
    /\ wallets = <<>>
    /\ pathTypes = <<>>
    /\ pathTypes' = <<kind>>
    /\ toast' = "Wallet selected. Please generate a wallet to continue."
    /\ UNCHANGED <<mnemonicWords, wallets, mnemonicInput, visiblePrivateKeys,
                   visiblePhrases, store>>

\* The phrase field, rendered while no wallet exists and a chain is selected.
SetMnemonicInput(text) ==
    /\ wallets = <<>>
    /\ pathTypes # <<>>
    /\ mnemonicInput' = text
    /\ toast' = ""
    /\ UNCHANGED <<mnemonicWords, pathTypes, wallets, visiblePrivateKeys,
                   visiblePhrases, store>>

\* A remove that filters the visibility arrays one position further on.
handleDeleteWalletDrifting(index) ==
    LET updatedWallets == filterIndex(wallets, index)
        updatedPathTypes == filterIndex(pathTypes, index)
    IN  /\ wallets' = updatedWallets
        /\ pathTypes' = updatedPathTypes
        /\ store' = [store EXCEPT !.wallets = <<stringify(updatedWallets)>>,
                                  !.paths = <<stringify(updatedPathTypes)>>]
        /\ visiblePrivateKeys' = filterIndex(visiblePrivateKeys, index + 1)
        /\ visiblePhrases' = filterIndex(visiblePhrases, index + 1)
        /\ toast' = "Wallet deleted successfully!"
        /\ UNCHANGED <<mnemonicWords, mnemonicInput>>

handleDeleteWallet(index) ==
    LET updatedWallets == filterIndex(wallets, index)
        updatedPathTypes == filterIndex(pathTypes, index)
    IN  /\ wallets' = updatedWallets
        /\ pathTypes' = updatedPathTypes
        /\ store' = [store EXCEPT !.wallets = <<stringify(updatedWallets)>>,
                                  !.paths = <<stringify(updatedPathTypes)>>]
        /\ visiblePrivateKeys' = filterIndex(visiblePrivateKeys, index)
        /\ visiblePhrases' = filterIndex(visiblePhrases, index)
        /\ toast' = "Wallet deleted successfully!"
        /\ UNCHANGED <<mnemonicWords, mnemonicInput>>

\* A clear that leaves the stored chain selection in place.
handleClearWalletsKeepPaths ==
    /\ store' = [store EXCEPT !.wallets = Absent, !.mnemonics = Absent]
    /\ wallets' = <<>>
    /\ mnemonicWords' = <<>>
    /\ pathTypes' = <<>>
    /\ visiblePrivateKeys' = <<>>
    /\ visiblePhrases' = <<>>
    /\ toast' = "All wallets cleared."
    /\ UNCHANGED mnemonicInput

handleClearWallets ==
    /\ store' = [store EXCEPT !.wallets = Absent, !.mnemonics = Absent,
                              !.paths = Absent]
    /\ wallets' = <<>>
    /\ mnemonicWords' = <<>>
    /\ pathTypes' = <<>>
    /\ visiblePrivateKeys' = <<>>
    /\ visiblePhrases' = <<>>
    /\ toast' = "All wallets cleared."
    /\ UNCHANGED mnemonicInput

\* A toggle that flips the flag of every wallet.
togglePrivateKeyVisibilityOfAll(index) ==
    /\ visiblePrivateKeys' = [i \in 1..Len(visiblePrivateKeys) |-> ~visiblePrivateKeys[i]]
    /\ toast' = ""
    /\ UNCHANGED <<mnemonicWords, pathTypes, wallets, mnemonicInput, visiblePhrases,
                   store>>

togglePrivateKeyVisibility(index) ==
    /\ visiblePrivateKeys' = flipIndex(visiblePrivateKeys, index)
    /\ toast' = ""
    /\ UNCHANGED <<mnemonicWords, pathTypes, wallets, mnemonicInput, visiblePhrases,
                   store>>

togglePhraseVisibility(index) ==
    /\ visiblePhrases' = flipIndex(visiblePhrases, index)
    /\ toast' = ""
    /\ UNCHANGED <<mnemonicWords, pathTypes, wallets, mnemonicInput,
                   visiblePrivateKeys, store>>

\* handleGenerateWallet with `generated` the phrase generateMnemonic() would draw.
generateWith(generated) ==
    LET entered == trim(mnemonicInput)
    IN  IF entered # <<>> /\ ~validateMnemonic(entered)
        THEN /\ toast' = "Invalid recovery phrase. Please try again."
             /\ UNCHANGED <<mnemonicWords, pathTypes, wallets, mnemonicInput,
                            visiblePrivateKeys, visiblePhrases, store>>
        ELSE LET mnemonic == IF entered # <<>> THEN entered ELSE generated
                 words == split(mnemonic)
                 made == generateWalletFromMnemonic(firstPathType, asText(mnemonic),
                                                    Len(wallets))
             IN  /\ mnemonicWords' = words
                 /\ IF made.wallet # <<>>
                    THEN /\ wallets' = wallets \o made.wallet
                         /\ store' = [store EXCEPT
                                        !.mnemonics = <<stringify(words)>>,
                                        !.paths = <<stringify(pathTypes)>>]
                         /\ visiblePrivateKeys' = Append(visiblePrivateKeys, FALSE)
                         /\ visiblePhrases' = Append(visiblePhrases, FALSE)
                         /\ toast' = "Wallet generated successfully!"
                    ELSE /\ toast' = made.toast
                         /\ UNCHANGED <<wallets, store, visiblePrivateKeys,
                                        visiblePhrases>>
                 /\ UNCHANGED <<pathTypes, mnemonicInput>>

handleGenerateWallet == \E generated \in GeneratedMnemonics : generateWith(generated)

handleAddWallet ==
    IF isFalsyArray(mnemonicWords)
       THEN /\ toast' = "No mnemonic found. Please generate a wallet first."
            /\ UNCHANGED <<mnemonicWords, pathTypes, wallets, mnemonicInput,
                           visiblePrivateKeys, visiblePhrases, store>>
       ELSE LET made == generateWalletFromMnemonic(firstPathType,
                                                   join(mnemonicWords), Len(wallets))
                updatedWallets == wallets \o made.wallet
                updatedPathType == <<pathTypes, pathTypes>>
            IN  /\ IF made.wallet # <<>>
                   THEN /\ visiblePrivateKeys' = Append(visiblePrivateKeys, FALSE)
                        /\ visiblePhrases' = Append(visiblePhrases, FALSE)
                        /\ wallets' = updatedWallets
                        /\ store' = [store EXCEPT
                                       !.wallets = <<stringify(updatedWallets)>>,
                                       !.pathTypes = <<stringify(updatedPathType)>>]
                        /\ toast' = "Wallet generated successfully!"
                   ELSE /\ toast' = made.toast
                        /\ UNCHANGED <<wallets, store, visiblePrivateKeys,
                                       visiblePhrases>>
                /\ UNCHANGED <<mnemonicWords, pathTypes, mnemonicInput>>

\* --------------------------------------------------- history variables
\* noRemove: every wallet of the list was appended, and none removed, since the
\* list was last empty.  A reload counts as a new start only when it leaves
\* the list empty.
KeepNoRemove == noRemove' = (wallets' = <<>> \/ noRemove)

RemoveNoRemove == noRemove' = (wallets' = <<>> \/ (noRemove /\ wallets' = wallets))

ResetNoRemove == noRemove' = (wallets' = <<>>)

\* assigned: a successful generate opens a lineage, a successful add extends
\* it, clear closes it.
OpenLineage ==
    assigned' = IF Len(wallets') > Len(wallets) THEN {Len(wallets)} ELSE assigned

ExtendLineage ==
    assigned' = IF Len(wallets') > Len(wallets) THEN assigned \cup {Len(wallets)}
                ELSE assigned

\* ------------------------------------------------------- specifications
\* Spec: every handler callable in every state, with any index.  The history
\* variable `assigned` is maintained by SpecUI only.
Reload == Mount /\ ResetNoRemove /\ UNCHANGED assigned

Select ==
    /\ \E kind \in {Solana, Ethereum} : SelectChain(kind)
    /\ UNCHANGED <<assigned, noRemove>>

TypePhrase ==
    /\ \E text \in Inputs : SetMnemonicInput(text)
    /\ UNCHANGED <<assigned, noRemove>>

Generate ==
    /\ Len(wallets) < MaxWallets
    /\ handleGenerateWallet
    /\ KeepNoRemove
    /\ UNCHANGED assigned

Add ==
    /\ Len(wallets) < MaxWallets
    /\ handleAddWallet
    /\ KeepNoRemove
    /\ UNCHANGED assigned

Delete ==
    /\ \E index \in Indices : handleDeleteWallet(index)
    /\ RemoveNoRemove
    /\ UNCHANGED assigned

Clear == handleClearWallets /\ ResetNoRemove /\ UNCHANGED assigned

TogglePrivateKey ==
    /\ \E index \in Indices : togglePrivateKeyVisibility(index)
    /\ UNCHANGED <<assigned, noRemove>>

TogglePhrase ==
    /\ \E index \in Indices : togglePhraseVisibility(index)
    /\ UNCHANGED <<assigned, noRemove>>

Next ==
    \/ Reload
    \/ Select
    \/ TypePhrase
    \/ Generate
    \/ Add
    \/ Delete
    \/ Clear
    \/ TogglePrivateKey
    \/ TogglePhrase

Spec == Init /\ [][Next]_vars

\* SpecUI: only what the rendered page offers in the current state.
UIReload == Mount /\ ResetNoRemove /\ UNCHANGED assigned

UIGenerate ==
    /\ wallets = <<>>
    /\ pathTypes # <<>>
    /\ handleGenerateWallet
    /\ KeepNoRemove
    /\ OpenLineage

UIAdd ==
    /\ wallets # <<>>
    /\ Len(wallets) < MaxWalletsUI
    /\ handleAddWallet
    /\ KeepNoRemove
    /\ ExtendLineage

UIDelete ==
    /\ \E index \in 0..(Len(wallets) - 1) : handleDeleteWallet(index)
    /\ RemoveNoRemove
    /\ UNCHANGED assigned

UIClear ==
    /\ wallets # <<>>
    /\ handleClearWallets
    /\ ResetNoRemove
    /\ assigned' = {}

UITogglePrivateKey ==
    /\ \E index \in 0..(Len(wallets) - 1) : togglePrivateKeyVisibility(index)
    /\ UNCHANGED <<assigned, noRemove>>

NextUI ==
    \/ UIReload
    \/ Select
    \/ TypePhrase
    \/ UIGenerate
    \/ UIAdd
    \/ UIDelete
    \/ UIClear
    \/ UITogglePrivateKey

SpecUI == Init /\ [][NextUI]_vars

\* ------------------------------------------- a store that refuses writes
\* localStorage.setItem throws (QuotaExceededError, a store that is full or
\* disabled).  The handler stops at its first setItem: the state updates it
\* queued before that call are applied, the statements after it never run, no
\* toast is raised, and the exception leaves the handler.
handleDeleteWalletThrowing(index) ==
    /\ wallets' = filterIndex(wallets, index)
    /\ pathTypes' = filterIndex(pathTypes, index)
    /\ toast' = ""
    /\ UNCHANGED <<mnemonicWords, mnemonicInput, visiblePrivateKeys, visiblePhrases,
                   store>>

generateThrowingWith(generated) ==
    LET entered == trim(mnemonicInput)
        mnemonic == IF entered # <<>> THEN entered ELSE generated
        made == generateWalletFromMnemonic(firstPathType, asText(mnemonic),
                                           Len(wallets))
    IN  /\ entered = <<>> \/ validateMnemonic(entered)
        /\ made.wallet # <<>>
        /\ mnemonicWords' = split(mnemonic)
        /\ wallets' = wallets \o made.wallet
        /\ toast' = ""
        /\ UNCHANGED <<pathTypes, mnemonicInput, visiblePrivateKeys, visiblePhrases,
                       store>>

handleGenerateWalletThrowing ==
    \E generated \in GeneratedMnemonics : generateThrowingWith(generated)

handleAddWalletThrowing ==
    LET made == generateWalletFromMnemonic(firstPathType, join(mnemonicWords),
                                           Len(wallets))
    IN  /\ ~isFalsyArray(mnemonicWords)
        /\ made.wallet # <<>>
        /\ visiblePrivateKeys' = Append(visiblePrivateKeys, FALSE)
        /\ visiblePhrases' = Append(visiblePhrases, FALSE)
        /\ wallets' = wallets \o made.wallet
        /\ toast' = ""
        /\ UNCHANGED <<mnemonicWords, pathTypes, mnemonicInput, store>>

\* SpecQuota: the rendered page in a browser whose store refuses every write.
\* A call that does not append a flag for its wallet lets the visibility
\* arrays and the wallet list drift apart, so the arrays are capped as well.
FlagsBelowCap ==
    /\ Len(visiblePrivateKeys) < MaxWalletsUI
    /\ Len(visiblePhrases) < MaxWalletsUI

QuotaGenerate ==
    /\ wallets = <<>>
    /\ pathTypes # <<>>
    /\ handleGenerateWalletThrowing
    /\ KeepNoRemove
    /\ OpenLineage

QuotaAdd ==
    /\ wallets # <<>>
    /\ Len(wallets) < MaxWalletsUI
    /\ FlagsBelowCap
    /\ handleAddWalletThrowing
    /\ KeepNoRemove
    /\ ExtendLineage

QuotaDelete ==
    /\ \E index \in 0..(Len(wallets) - 1) : handleDeleteWalletThrowing(index)
    /\ RemoveNoRemove
    /\ UNCHANGED assigned

NextQuota ==
    \/ UIReload
    \/ Select
    \/ TypePhrase
    \/ QuotaGenerate
    \/ QuotaAdd
    \/ QuotaDelete
    \/ UIClear
    \/ UITogglePrivateKey

SpecQuota == Init /\ [][NextQuota]_vars

\* ------------------------------------------------- reading a stored path
\* m/44'/<registration>'/0'/<accountIndex>'
pathText(registration, accountIndex) ==
    "m/44'/" \o registration \o "'/0'/" \o ToString(accountIndex) \o "'"

\* The paths of that form, with the registration and the index each carries.
WellFormedPaths ==
    {<<pathText(r, n), r, n>> : r \in NumericPathTypes, n \in AccountIndices}

accountIndexOf(path) ==
    IF \E t \in WellFormedPaths : t[1] = path
    THEN (CHOOSE t \in WellFormedPaths : t[1] = path)[3]
    ELSE -1

registrationOf(path) ==
    IF \E t \in WellFormedPaths : t[1] = path
    THEN (CHOOSE t \in WellFormedPaths : t[1] = path)[2]
    ELSE Undefined

\* The list without the element at 0-based position k; the list itself when k
\* is no position of it.
removeAt(s, k) ==
    IF k < Len(s) THEN SubSeq(s, 1, k) \o SubSeq(s, k + 2, Len(s)) ELSE s

Generated == "Wallet generated successfully!"

Deleted == "Wallet deleted successfully!"

NoMnemonic == "No mnemonic found. Please generate a wallet first."

\* The toasts of generate, add and remove, successful or not: every call of
\* these handlers raises one of them, and no other operation does.
MutatorToasts ==
    {Generated, Deleted, NoMnemonic, "Invalid recovery phrase. Please try again.",
     "Failed to generate wallet. Please try again.", "Unsupported path type."}

\* ------------------------------------------------------------------ C1
\* C1: no two wallets of the list have the same derivation path.
C1_UniquePaths ==
    \A i, j \in 1..Len(wallets) : i # j => wallets[i].path # wallets[j].path

\* ------------------------------------------------------------------ C2
\* C2: within a lineage, the account index given to a wallet that add creates
\* was never given to an earlier wallet of the lineage, removed or not.
C2_NoIndexReuse ==
    [][(wallets # <<>> /\ toast' = Generated /\ Len(wallets') = Len(wallets) + 1)
          => accountIndexOf(wallets'[Len(wallets')].path) \notin assigned]_vars

\* ------------------------------------------------------------------ C3
\* C3: right after a successful generate, add or remove, the three persisted
\* entries are present and hold the wallet list, the phrase and the chain
\* selection that are in memory, so that a reload restores them.
C3_StoreMirrorsMemory ==
    toast \in {Generated, Deleted} =>
        /\ store.wallets # Absent /\ parse(store.wallets[1]) = wallets
        /\ store.mnemonics # Absent /\ parse(store.mnemonics[1]) = mnemonicWords
        /\ store.paths # Absent /\ parse(store.paths[1]) = pathTypes

\* ------------------------------------------------------------------ C4
\* C4: a selected chain is left as it is by every generate, add and remove.
C4_ChainKept ==
    [][(pathTypes # <<>> /\ toast' \in MutatorToasts) => pathTypes' = pathTypes]_vars

\* ------------------------------------------------------------------ C5
\* C5: all wallets of the list carry the same registration number in their
\* paths.
C5_OneChain ==
    \A i, j \in 1..Len(wallets) :
        registrationOf(wallets[i].path) = registrationOf(wallets[j].path)

\* Two wallets in the list while the chain selection was emptied by a remove.
C5_Witness == Len(wallets) >= 2 /\ pathTypes = <<>>

\* ------------------------------------------------------------------ C6
\* C6: both visibility arrays are as long as the wallet list.
C6_SameLength ==
    /\ Len(visiblePrivateKeys) = Len(wallets)
    /\ Len(visiblePhrases) = Len(wallets)

\* A remove has left a wallet whose two flags are set.
C6_Witness ==
    /\ toast = Deleted
    /\ wallets # <<>>
    /\ visiblePrivateKeys[1]
    /\ visiblePhrases[1]

\* ------------------------------------------------------------------ C7
\* C7: remove at position k yields the list without its k-th wallet, every
\* other wallet unchanged and in the same order; generate and add leave the
\* list as it is or append one wallet at its end.
C7_Frame ==
    [][/\ toast' = Deleted =>
              \A k \in Indices :
                  handleDeleteWallet(k) => wallets' = removeAt(wallets, k)
       /\ toast' \in MutatorToasts \ {Deleted} =>
              \/ wallets' = wallets
              \/ /\ Len(wallets') = Len(wallets) + 1
                 /\ SubSeq(wallets', 1, Len(wallets)) = wallets]_vars

\* A remove has left a wallet that was not at the head of the list.
C7_Witness ==
    /\ toast = Deleted
    /\ wallets # <<>>
    /\ accountIndexOf(wallets[1].path) > 0

\* ------------------------------------------------------------------ C8
\* C8: remove with an index that is no position of the list reports no success
\* and changes neither the list, the chain selection, the visibility arrays
\* nor the persisted entries.
C8_RemoveOutOfRange ==
    [][\A k \in Indices :
          (k >= Len(wallets) /\ handleDeleteWallet(k)) =>
              /\ toast' # Deleted
              /\ UNCHANGED <<wallets, pathTypes, visiblePrivateKeys, visiblePhrases,
                             store>>]_vars

\* ------------------------------------------------------------------ C9
\* C9: a list built from the empty list by successful generate and add calls,
\* with no remove, has account index i at position i (counted from 0).
C9_IndexIsPosition ==
    noRemove => \A i \in 1..Len(wallets) : accountIndexOf(wallets[i].path) = i - 1

\* Such a list of two wallets.
C9_Witness == noRemove /\ Len(wallets) = 2 /\ toast = Generated

\* ----------------------------------------------------------------- C10
\* C10: add, called with a chain selected while the phrase is the placeholder
\* array or the empty array, reports the no-mnemonic error and appends no
\* wallet.
C10_AddNeedsPhrase ==
    [][(mnemonicWords \in {Placeholder, <<>>} /\ pathTypes # <<>> /\ handleAddWallet)
          => (toast' = NoMnemonic /\ wallets' = wallets)]_vars

\* ------------------------------------------------------- further toasts
Invalid == "Invalid recovery phrase. Please try again."

Failed == "Failed to generate wallet. Please try again."

Unsupported == "Unsupported path type."

Cleared == "All wallets cleared."

Selected == "Wallet selected. Please generate a wallet to continue."

\* What a failed call must leave alone: the in-memory registry and the store.
Registry ==
    <<wallets, mnemonicWords, pathTypes, visiblePrivateKeys, visiblePhrases, store>>

\* ----------------------------------------------------------------- C11
\* C11: a generate or add call to which generateWalletFromMnemonic returns
\* null changes neither the wallet list, the phrase, the chain selection, the
\* visibility arrays nor any persisted entry.
C11_FailureMutatesNothing ==
    [][toast' \in {Failed, Unsupported} => UNCHANGED Registry]_vars

\* ----------------------------------------------------------------- C12
\* C12: generate, called while the phrase field holds a non-empty phrase that
\* fails validation, reports the invalid phrase and changes neither the wallet
\* list, the phrase, the chain selection, the visibility arrays nor any
\* persisted entry.
C12_InvalidPhraseRejected ==
    [][(/\ trim(mnemonicInput) # <<>>
        /\ trim(mnemonicInput) \notin ValidMnemonics
        /\ handleGenerateWallet)
          => (toast' = Invalid /\ UNCHANGED Registry)]_vars

\* An invalid phrase was rejected while the list held a wallet.
C12_Witness == toast = Invalid /\ wallets # <<>> /\ mnemonicInput = AbandonAbandon

\* ----------------------------------------------------------------- C13
\* C13: a generate, add or remove whose write to the store throws leaves the
\* wallet list, the chain selection and both visibility arrays as the same
\* call leaves them when the write succeeds.
C13_WriteFailureHarmless ==
    [][/\ \A k \in 0..(Len(wallets) - 1) :
              handleDeleteWalletThrowing(k) =>
                  /\ wallets' = removeAt(wallets, k)
                  /\ visiblePrivateKeys' = removeAt(visiblePrivateKeys, k)
                  /\ visiblePhrases' = removeAt(visiblePhrases, k)
       /\ (handleGenerateWalletThrowing \/ handleAddWalletThrowing) =>
              /\ Len(wallets') = Len(wallets) + 1
              /\ visiblePrivateKeys' = Append(visiblePrivateKeys, FALSE)
              /\ visiblePhrases' = Append(visiblePhrases, FALSE)]_vars

\* ----------------------------------------------------------------- C14
\* C14: clear leaves the wallet list, the chain selection, the phrase and both
\* visibility arrays empty and the stored wallet list, phrase and chain
\* selection absent; a reload that follows it finds no wallet, no chain and
\* no flags.
C14_ClearEmpties ==
    [][/\ toast' = Cleared =>
              /\ wallets' = <<>> /\ pathTypes' = <<>> /\ mnemonicWords' = <<>>
              /\ visiblePrivateKeys' = <<>> /\ visiblePhrases' = <<>>
              /\ store'.wallets = Absent
              /\ store'.mnemonics = Absent
              /\ store'.paths = Absent
       /\ (toast = Cleared /\ Mount) =>
              /\ wallets' = <<>> /\ pathTypes' = <<>> /\ mnemonicWords' = Placeholder
              /\ visiblePrivateKeys' = <<>> /\ visiblePhrases' = <<>>]_vars

\* A clear that followed an add: the entry add wrote under "pathTypes" remains.
C14_Witness ==
    /\ toast = Cleared
    /\ store.pathTypes # Absent
    /\ store.wallets = Absent

\* ----------------------------------------------------------------- C15
\* C15: with a chain selected and the phrase field empty, a generate that
\* follows the generate which created the first wallet appends a wallet with
\* the same mnemonic, the two having account indices 0 and 1 and different
\* public keys.
C15_SecondGenerateSamePhrase ==
    [][(/\ pathTypes # <<>>
        /\ mnemonicInput = <<>>
        /\ Len(wallets) = 1
        /\ noRemove
        /\ wallets[1].mnemonic \in {asText(g) : g \in GeneratedMnemonics}
        /\ wallets[1].mnemonic = join(mnemonicWords)
        /\ handleGenerateWallet)
          => /\ Len(wallets') = 2
             /\ wallets'[2].mnemonic = wallets'[1].mnemonic
             /\ accountIndexOf(wallets'[1].path) = 0
             /\ accountIndexOf(wallets'[2].path) = 1
             /\ wallets'[2].publicKey # wallets'[1].publicKey]_vars

\* ----------------------------------------------------------------- C16
\* C16: once a generate has established a phrase (mnemonicWords is neither the
\* placeholder nor empty), no generate, add or remove changes mnemonicWords.
C16_PhraseKept ==
    [][(mnemonicWords \notin {Placeholder, <<>>} /\ toast' \in MutatorToasts)
          => mnemonicWords' = mnemonicWords]_vars

\* ----------------------------------------------------------------- C17
\* C17: while a chain is selected (pathTypes non-empty) no step is a chain
\* selection: the selection toast is not raised and no button sets pathTypes.
C17_SelectOnlyWhenNone ==
    [][pathTypes # <<>> =>
          /\ toast' # Selected
          /\ \A kind \in {Solana, Ethereum} : ~SelectChain(kind)]_vars

\* A chain chosen for the second time, after a remove had unset the first.
C17_Witness ==
    /\ toast = Selected
    /\ pathTypes = <<Ethereum>>
    /\ store.paths # Absent

bip32(path, seed) == "bip32-secp256k1(" \o path \o "," \o seed \o ")"

\* C19: a wallet whose path carries registration 501 has its key derived by
\* the hardened Ed25519 scheme, a wallet whose path carries registration 60
\* by BIP-32 over secp256k1.
C19_SchemeByChain ==
    \A i \in 1..Len(wallets) :
        LET w == wallets[i]
            seed == mnemonicToSeedSync(w.mnemonic)
        IN  /\ registrationOf(w.path) = Solana =>
                   w.privateKey = bs58(secretKeyFromSeed(derivePath(w.path, seed)))
            /\ registrationOf(w.path) = Ethereum =>
                   w.privateKey = hex(bip32(w.path, seed))

\* ----------------------------------------------------------------- C20
\* The key pair the Solana branch builds, and the one the Ethereum branch builds.
solanaKeys(path, mnemonic) ==
    LET secretKey == secretKeyFromSeed(derivePath(path, mnemonicToSeedSync(mnemonic)))
    IN  <<bs58(publicKeyOf(secretKey)), bs58(secretKey)>>

ethereumKeys(path, mnemonic) ==
    LET privateKey == hex(derivePath(path, mnemonicToSeedSync(mnemonic)))
    IN  <<addressOf(privateKey), privateKey>>

\* generateWalletFromMnemonic over its arguments: null for every path type
\* other than "501" and "60", the chain's own key pair for these two.
ByPathType ==
    \A pathType \in PathTypeArgs, g \in GeneratedMnemonics, n \in 0..MaxWalletsUI :
        LET made == generateWalletFromMnemonic(pathType, asText(g), n).wallet
        IN  IF pathType = Solana
            THEN /\ made # <<>>
                 /\ <<made[1].publicKey, made[1].privateKey>>
                        = solanaKeys(made[1].path, asText(g))
            ELSE IF pathType = Ethereum
            THEN /\ made # <<>>
                 /\ <<made[1].publicKey, made[1].privateKey>>
                        = ethereumKeys(made[1].path, asText(g))
            ELSE made = <<>>

\* C20: generateWalletFromMnemonic returns null for every path type other than
\* "501" and "60"; a generate or add made while no chain is selected appends
\* no wallet; a wallet appended under "501" has the key pair of the Solana
\* branch, one appended under "60" that of the Ethereum branch.
C20_OnlyOwnBranch ==
    [][/\ ByPathType
       /\ (pathTypes = <<>> /\ toast' \in MutatorToasts \ {Deleted}) =>
              (wallets' = wallets /\ toast' # Generated)
       /\ (toast' = Generated /\ Len(wallets') = Len(wallets) + 1) =>
              LET w == wallets'[Len(wallets')]
                  keys == <<w.publicKey, w.privateKey>>
              IN  /\ pathTypes \in {<<Solana>>, <<Ethereum>>}
                  /\ pathTypes = <<Solana>> => keys = solanaKeys(w.path, w.mnemonic)
                  /\ pathTypes = <<Ethereum>> => keys = ethereumKeys(w.path, w.mnemonic)]_vars

\* An add that failed because a remove had unset the chain.
C20_Witness == toast = Failed /\ pathTypes = <<>> /\ wallets # <<>>

\* ----------------------------------------------------------------- C21
\* C21: a wallet appended by generate or add has the path m/44'/r'/0'/n' with
\* r the selected chain's registration number, 501 or 60, and n the length of
\* the list before the call.
C21_PathOfAppended ==
    [][(toast' = Generated /\ Len(wallets') = Len(wallets) + 1) =>
          /\ pathTypes \in {<<Solana>>, <<Ethereum>>}
          /\ wallets'[Len(wallets')].path = pathText(pathTypes[1], Len(wallets))]_vars

\* A second Ethereum wallet was appended.
C21_Witness ==
    /\ toast = Generated
    /\ pathTypes = <<Ethereum>>
    /\ Len(wallets) = 2
    /\ wallets[2].path = "m/44'/60'/0'/1'"

\* ----------------------------------------------------------------- C22
\* C22: a remove that takes the wallet at position k out of the list takes
\* the flags at position k out of both visibility arrays, so that every
\* remaining wallet keeps its two flags; a remove that takes no wallet out
\* leaves both arrays as they are.
C22_FlagsStayPaired ==
    [][toast' = Deleted =>
          \/ /\ wallets' = wallets
             /\ visiblePrivateKeys' = visiblePrivateKeys
             /\ visiblePhrases' = visiblePhrases
          \/ \E k \in 0..(Len(wallets) - 1) :
                 /\ wallets' = removeAt(wallets, k)
                 /\ visiblePrivateKeys' = removeAt(visiblePrivateKeys, k)
                 /\ visiblePhrases' = removeAt(visiblePhrases, k)]_vars

\* The wallet that was second is now first, its private key still revealed
\* and its phrase still hidden.
C22_Witness ==
    /\ toast = Deleted
    /\ Len(wallets) = 1
    /\ accountIndexOf(wallets[1].path) = 1
    /\ visiblePrivateKeys = <<TRUE>>
    /\ visiblePhrases = <<FALSE>>

\* ----------------------------------------------------------------- C23
\* C23: the private-key flag of a wallet appended by generate or add is
\* false, every private-key flag is false after a reload, and
\* togglePrivateKeyVisibility(i) inverts the flag at position i (none when i
\* is no position) and changes no other flag, nor the wallet list, the
\* phrase, the chain selection, the phrase flags or the persisted entries.
C23_HiddenUntilToggled ==
    [][/\ (toast' = Generated /\ Len(wallets') = Len(wallets) + 1) =>
              visiblePrivateKeys' = visiblePrivateKeys \o <<FALSE>>
       /\ (toast' = "" /\ Mount) =>
              \A j \in 1..Len(visiblePrivateKeys') : ~visiblePrivateKeys'[j]
       /\ toast' = "" =>
              \A i \in Indices :
                  togglePrivateKeyVisibility(i) =>
                      /\ Len(visiblePrivateKeys') = Len(visiblePrivateKeys)
                      /\ \A j \in 1..Len(visiblePrivateKeys) :
                             visiblePrivateKeys'[j] =
                                 IF j = i + 1 THEN ~visiblePrivateKeys[j]
                                 ELSE visiblePrivateKeys[j]
                      /\ UNCHANGED <<wallets, mnemonicWords, pathTypes,
                                     visiblePhrases, store>>]_vars

\* The second wallet's private key was revealed while the first one's stays
\* hidden and the first one's phrase is shown.
C23_Witness ==
    /\ toast = ""
    /\ visiblePrivateKeys = <<FALSE, TRUE>>
    /\ visiblePhrases = <<TRUE, FALSE>>

\* ----------------------------------------------------------------- C24
\* C24: the store never holds an entry other than "wallets", "mnemonics" and
\* "paths", and holds no entry at all right after clear.
C24_ThreeEntriesOnly ==
    /\ store.pathTypes = Absent
    /\ toast = Cleared => store = EmptyStore

\* ----------------------------------------------------------------- C25
\* C25: whenever the wallet list is non-empty, pathTypes[0] is "501" or "60".
C25_ChainWhileWallets ==
    wallets # <<>> => (pathTypes # <<>> /\ pathTypes[1] \in {Solana, Ethereum})

\* ----------------------------------------------------------------- C26
\* C26: every wallet of the list carries the phrase that mnemonicWords spells
\* when joined by single blanks.
C26_OnePhrase ==
    \A i \in 1..Len(wallets) : wallets[i].mnemonic = join(mnemonicWords)

\* A reload restored two or more wallets made from a phrase that was typed in
\* with blanks around it.
C26_Witness ==
    /\ toast = ""
    /\ Len(wallets) >= 2
    /\ mnemonicInput = <<>>
    /\ wallets[1].mnemonic = "zoo zoo zoo zoo zoo zoo zoo zoo zoo zoo zoo wrong"
    /\ \A i \in 1..Len(wallets) : ~visiblePrivateKeys[i]

====
